---- MODULE Spec2Model ----
(***************************************************************************)
(* Attribute resolution of libgit2 (src/attr.c): collection of the ordered *)
(* attribute-file vector and the three resolvers git_attr_get,             *)
(* git_attr_get_many_with_session and git_attr_foreach.                    *)
(***************************************************************************)
EXTENDS Integers, Sequences, FiniteSets, TLC

\* ------------------------------------------------------------------ bounds
\* deepest directory level below the repository root that a query path uses
MaxDepth == 1
\* longest list of names handed to get_many
MaxNames == 2
\* latest callback invocation at which the foreach callback may abort
MaxAbort == 2

\* --------------------------------------------------------------- constants
GIT_ATTR_CHECK_FILE_THEN_INDEX == 0
GIT_ATTR_CHECK_INDEX_THEN_FILE == 1
GIT_ATTR_CHECK_INDEX_ONLY == 2
GIT_ATTR_CHECK_NO_SYSTEM == 4
GIT_ATTR_CHECK_INCLUDE_HEAD == 8
GIT_ATTR_FILE_NUM_SOURCES == 4
GIT_ENOTFOUND == -3
\* any error other than GIT_ENOTFOUND
GIT_ERROR == -1
GIT_ATTR_VALUE_UNSPECIFIED == 0
GIT_ATTR_VALUE_TRUE == 1
GIT_ATTR_VALUE_FALSE == 2
GIT_ATTR_VALUE_STRING == 3

GIT_ATTR_FILE_SOURCE_FILE == "FILE"
GIT_ATTR_FILE_SOURCE_INDEX == "INDEX"
GIT_ATTR_FILE_SOURCE_COMMIT == "COMMIT"
GIT_ATTR_FILE == ".gitattributes"
GIT_ATTR_FILE_INREPO == "attributes"
GIT_ATTR_FILE_SYSTEM == "gitattributes"

\* attribute values are pointers: the three sentinels, NULL, or a string
\* owned by the file that assigns it (second component: where it lives)
NULL == <<"NULL", 0>>
git_attr__true == <<"[internal]__TRUE__", 0>>
git_attr__false == <<"[internal]__FALSE__", 0>>
git_attr__unset == <<"[internal]__UNSET__", 0>>
\* what the caller's output buffer holds before a call
JUNK == <<"junk", 0>>

Flags == 0..15
Levels == 0..MaxDepth
Names == {"a", "b"}
SourceTypes == {GIT_ATTR_FILE_SOURCE_FILE, GIT_ATTR_FILE_SOURCE_INDEX,
                GIT_ATTR_FILE_SOURCE_COMMIT}

\* directory names, relative to the repository root; Dirs[l + 1] is level l
Dirs == <<"/", "/d1/", "/d1/d2/", "/d1/d2/d3/">>
NoDir == "NULL"
InfoDir == "$GIT_DIR/info/"
CfgAttrFile == "core.attributesfile"
NoFile == [type |-> "NONE", base |-> NoDir, filename |-> "NONE"]

\* ----------------------------------------------------------------- sources
Source(type, base, filename) ==
    [type |-> type, base |-> base, filename |-> filename]

InfoSource == Source(GIT_ATTR_FILE_SOURCE_FILE, InfoDir, GIT_ATTR_FILE_INREPO)
CfgSource == Source(GIT_ATTR_FILE_SOURCE_FILE, NoDir, CfgAttrFile)
SystemSource == Source(GIT_ATTR_FILE_SOURCE_FILE, NoDir, GIT_ATTR_FILE_SYSTEM)
DirSource(type, level) == Source(type, Dirs[level + 1], GIT_ATTR_FILE)

DirSources == {DirSource(t, l) : t \in SourceTypes, l \in Levels}
Sources == {InfoSource, CfgSource, SystemSource} \cup DirSources

\* the cache entry a source names: a blob source without a base is the
\* root .gitattributes blob
Key(source) ==
    IF source.base = NoDir /\ source.filename = GIT_ATTR_FILE
    THEN [source EXCEPT !.base = Dirs[1]]
    ELSE source

LevelOf(source) == CHOOSE l \in Levels : Dirs[l + 1] = source.base

TypeNum(t) ==
    CASE t = GIT_ATTR_FILE_SOURCE_FILE -> 1
      [] t = GIT_ATTR_FILE_SOURCE_INDEX -> 2
      [] OTHER -> 3

\* a number per source, used to make every string value distinct
SourceNum(s) ==
    CASE s = InfoSource -> 1
      [] s = CfgSource -> 2
      [] s = SystemSource -> 3
      [] OTHER -> 3 + 3 * LevelOf(s) + TypeNum(s.type)

NumSources == 3 + 3 * (MaxDepth + 1)

\* ---------------------------------------------------- attribute file content
Assign(name, value) == [name |-> name, value |-> value]
Rule(pattern, assigns) == [pattern |-> pattern, assigns |-> assigns]
Str(n) == <<"str", n>>

\* a file whose always-matching rules assign "a" twice (the later rule also
\* assigns "b")
AssignsA(s) ==
    << Rule(Levels, << Assign("a", Str(10 * SourceNum(s) + 1)) >>),
       Rule(Levels, << Assign("a", Str(10 * SourceNum(s) + 2)),
                       Assign("b", git_attr__true) >>) >>

\* a file that assigns "b" on every path and unsets "a" only for paths of
\* the root directory
AssignsB(s) ==
    << Rule(Levels, << Assign("b", Str(10 * SourceNum(s) + 1)) >>),
       Rule({0}, << Assign("a", git_attr__unset) >>),
       Rule({}, << Assign("a", git_attr__false) >>) >>


\* -------------------------------------------------------------- repositories
Faults == {"path_init", "cache_init", "find_dir", "calloc", "strmap_new",
           "strmap_set", "vector_insert"}

BaseRepo(wd, k) ==
    [ workdir |-> IF wd THEN Dirs[1] ELSE NoDir,
      index_ok |-> TRUE,
      cfg_attr_file |-> CfgAttrFile,
      info_item |-> 0,
      sysdir_find |-> 0,
      load |-> [s \in Sources |-> "ok"],
      plain |-> k,
      fault |-> "none" ]

\* every source exists; the sources numbered up to k (field plain) hold
\* AssignsB, the others AssignsA
ReposFull == {BaseRepo(wd, k) : wd \in BOOLEAN, k \in 0..NumSources}

\* one source is missing or fails to load
ReposOneOff ==
    {[BaseRepo(TRUE, SourceNum(s)) EXCEPT !.load[s] = o] :
        s \in Sources, o \in {"missing", "err"}}
    \cup {[BaseRepo(FALSE, SourceNum(s)) EXCEPT !.load[s] = o] :
            s \in {x \in Sources : x \notin DirSources
                                    \/ x.type # GIT_ATTR_FILE_SOURCE_FILE},
            o \in {"missing", "err"}}

\* one lookup of the environment answers differently
ReposLookup ==
    UNION {{ [BaseRepo(wd, 0) EXCEPT !.info_item = e],
             [BaseRepo(wd, 3) EXCEPT !.sysdir_find = e] }
           : wd \in BOOLEAN, e \in {GIT_ENOTFOUND, GIT_ERROR}}
    \cup {[BaseRepo(wd, 1) EXCEPT !.cfg_attr_file = NoDir] : wd \in BOOLEAN}
    \cup {[BaseRepo(wd, 1) EXCEPT !.index_ok = FALSE] : wd \in BOOLEAN}

\* one allocation or initialisation fails
ReposFault ==
    {[BaseRepo(wd, 0) EXCEPT !.fault = f] : wd \in BOOLEAN, f \in Faults}

Repos == ReposFull \cup ReposOneOff \cup ReposLookup \cup ReposFault

\* preloaded: the sources the cache has been asked to preload by the setup
\* that marked the session as set up
VARIABLES repo, session, call, preloaded
vars == <<repo, session, call, preloaded>>

\* the rules of a file of the repository
Content(file) ==
    IF SourceNum(file) <= repo.plain THEN AssignsB(file) ELSE AssignsA(file)

\* -------------------------------------------------------- threaded call state
\* st: what a call has changed so far: the session, the log of requests, the
\* file references held, and the file vector being collected.  A step takes
\* the (st, error) pair of the step before it and passes an error on.
Held0 == [s \in Sources |-> 0]
Start(sess) == [session |-> sess, log |-> << >>, held |-> Held0, files |-> << >>]

Event(ev, source, allow_macros) ==
    [ev |-> ev, source |-> source, allow_macros |-> allow_macros]

Bit(flags, mask) == (flags \div mask) % 2 = 1

Result(st, error) == [st |-> st, error |-> error]

\* if (error != GIT_ENOTFOUND) goto out; error = 0;
ignore_enotfound(r) == IF r.error = GIT_ENOTFOUND THEN Result(r.st, 0) ELSE r

\* ------------------------------------------------------------------- cache
Logged(st, ev, source, allow_macros) ==
    [st EXCEPT !.log = Append(@, Event(ev, source, allow_macros))]

\* the cache reports a missing source as success without a file
git_attr_cache__get(st, source, allow_macros, ev) ==
    CASE repo.load[Key(source)] = "ok" ->
           [st |-> [Logged(st, ev, source, allow_macros)
                       EXCEPT !.held[Key(source)] = @ + 1],
            error |-> 0, file |-> Key(source)]
      [] repo.load[Key(source)] = "missing" ->
           [st |-> Logged(st, ev, source, allow_macros),
            error |-> 0, file |-> NoFile]
      [] OTHER ->
           [st |-> Logged(st, ev, source, allow_macros),
            error |-> GIT_ERROR, file |-> NoFile]

git_attr_file__free(st, file) ==
    IF file = NoFile THEN st ELSE [st EXCEPT !.held[file] = @ - 1]

\* ----------------------------------------------------------------- preload
\* line 270-273, g: what git_attr_cache__get returned
preload_got(g) ==
    IF g.error = 0
    THEN Result(git_attr_file__free(g.st, g.file), 0)
    ELSE Result(g.st, g.error)

preload_attr_source(st, source) ==
    preload_got(git_attr_cache__get(st, source, TRUE, "preload"))

preload_attr_file(st, base, filename) ==
    IF filename = NoDir
    THEN Result(st, 0)
    ELSE preload_attr_source(st, Source(GIT_ATTR_FILE_SOURCE_FILE, base, filename))

\* ---------------------------------------------------------- system_attr_file
git_sysdir_find_system_file(st) ==
    [st |-> Logged(st, "sysdir", SystemSource, FALSE),
     error |-> repo.sysdir_find,
     out |-> IF repo.sysdir_find = 0 THEN GIT_ATTR_FILE_SYSTEM ELSE NoDir]

\* line 319-328
system_memoized(st) ==
    IF st.session.sysdir = NoDir
    THEN [st |-> st, error |-> GIT_ENOTFOUND, out |-> NoDir]
    ELSE [st |-> st, error |-> 0, out |-> st.session.sysdir]

\* line 311-328, f: what git_sysdir_find_system_file returned
system_found(f) ==
    IF f.error # 0 /\ f.error # GIT_ENOTFOUND
    THEN [st |-> f.st, error |-> f.error, out |-> NoDir]
    ELSE system_memoized([f.st EXCEPT !.session.init_sysdir = TRUE,
                                      !.session.sysdir = f.out])

\* mutant: a session looks the system file up on every call
system_attr_file_unmemoized(st, as) ==
    IF ~as THEN git_sysdir_find_system_file(st)
    ELSE system_found(git_sysdir_find_system_file(st))

system_attr_file(st, as) ==
    IF ~as THEN git_sysdir_find_system_file(st)
    ELSE IF ~st.session.init_sysdir
    THEN system_found(git_sysdir_find_system_file(st))
    ELSE system_memoized(st)

\* ---------------------------------------------------------------- attr_setup
\* line 355, s: what system_attr_file returned
setup_system_file(s) ==
    IF s.error < 0 THEN Result(s.st, s.error)
    ELSE preload_attr_file(s.st, NoDir, s.out)

\* line 354-360: the system file
setup_system(r, as) ==
    IF r.error < 0 THEN r
    ELSE ignore_enotfound(setup_system_file(system_attr_file(r.st, as)))

\* mutant: the configured extra file is not preloaded
setup_cfg_skipped(r) == r

\* line 362-364: the configured extra file
setup_cfg(r) ==
    IF r.error < 0 THEN r
    ELSE preload_attr_file(r.st, NoDir, repo.cfg_attr_file)

\* line 366-372: the info file
setup_info(r) ==
    IF r.error < 0 THEN r
    ELSE IF repo.info_item < 0
    THEN ignore_enotfound(Result(r.st, repo.info_item))
    ELSE ignore_enotfound(preload_attr_file(r.st, InfoDir, GIT_ATTR_FILE_INREPO))

\* mutant: the root .gitattributes file preloaded without a work-tree
setup_workdir_always(r) ==
    IF r.error < 0 THEN r
    ELSE preload_attr_file(r.st, repo.workdir, GIT_ATTR_FILE)

\* line 374-376: the work-tree root file
setup_workdir(r) ==
    IF r.error < 0 THEN r
    ELSE IF repo.workdir # NoDir
    THEN preload_attr_file(r.st, repo.workdir, GIT_ATTR_FILE)
    ELSE r

\* line 378-380: the index blob of the root
setup_index(r) ==
    IF r.error < 0 THEN r
    ELSE IF ~repo.index_ok THEN Result(r.st, GIT_ERROR)
    ELSE preload_attr_source(
             r.st, Source(GIT_ATTR_FILE_SOURCE_INDEX, NoDir, GIT_ATTR_FILE))

\* line 382-384: the HEAD blob of the root
setup_head(r, flags) ==
    IF r.error < 0 THEN r
    ELSE IF Bit(flags, GIT_ATTR_CHECK_INCLUDE_HEAD)
    THEN preload_attr_source(
             r.st, Source(GIT_ATTR_FILE_SOURCE_COMMIT, NoDir, GIT_ATTR_FILE))
    ELSE r

\* mutant: the session is marked whether or not the setup succeeded
setup_done_always(r, as) ==
    IF as THEN Result([r.st EXCEPT !.session.init_setup = TRUE], r.error)
    ELSE r

\* line 386-387
setup_done(r, as) ==
    IF r.error < 0 THEN r
    ELSE IF as THEN Result([r.st EXCEPT !.session.init_setup = TRUE], 0)
    ELSE r

attr_setup(st, as, flags) ==
    IF as /\ st.session.init_setup THEN Result(st, 0)
    ELSE IF repo.fault = "cache_init" THEN Result(st, GIT_ERROR)
    ELSE setup_done(
             setup_head(
                 setup_index(
                     setup_workdir(
                         setup_info(
                             setup_cfg(
                                 setup_system(Result(st, 0), as))))),
                 flags),
             as)

\* ------------------------------------------------------ attr_decide_sources
\* mutant: the two source orders exchanged
attr_decide_sources_swapped(flags, has_wd, has_index) ==
    (CASE flags % 4 = GIT_ATTR_CHECK_FILE_THEN_INDEX ->
            (IF has_index THEN << GIT_ATTR_FILE_SOURCE_INDEX >> ELSE << >>)
            \o (IF has_wd THEN << GIT_ATTR_FILE_SOURCE_FILE >> ELSE << >>)
       [] flags % 4 = GIT_ATTR_CHECK_INDEX_THEN_FILE ->
            (IF has_wd THEN << GIT_ATTR_FILE_SOURCE_FILE >> ELSE << >>)
            \o (IF has_index THEN << GIT_ATTR_FILE_SOURCE_INDEX >> ELSE << >>)
       [] flags % 4 = GIT_ATTR_CHECK_INDEX_ONLY ->
            IF has_index THEN << GIT_ATTR_FILE_SOURCE_INDEX >> ELSE << >>
       [] OTHER -> << >>)
    \o (IF Bit(flags, GIT_ATTR_CHECK_INCLUDE_HEAD)
        THEN << GIT_ATTR_FILE_SOURCE_COMMIT >> ELSE << >>)

\* mutant: the unused source order 3 handled like file-then-index
attr_decide_sources_default(flags, has_wd, has_index) ==
    (CASE flags % 4 = GIT_ATTR_CHECK_INDEX_THEN_FILE ->
            (IF has_index THEN << GIT_ATTR_FILE_SOURCE_INDEX >> ELSE << >>)
            \o (IF has_wd THEN << GIT_ATTR_FILE_SOURCE_FILE >> ELSE << >>)
       [] flags % 4 = GIT_ATTR_CHECK_INDEX_ONLY ->
            IF has_index THEN << GIT_ATTR_FILE_SOURCE_INDEX >> ELSE << >>
       [] OTHER ->
            (IF has_wd THEN << GIT_ATTR_FILE_SOURCE_FILE >> ELSE << >>)
            \o (IF has_index THEN << GIT_ATTR_FILE_SOURCE_INDEX >> ELSE << >>))
    \o (IF Bit(flags, GIT_ATTR_CHECK_INCLUDE_HEAD)
        THEN << GIT_ATTR_FILE_SOURCE_COMMIT >> ELSE << >>)

\* the sources written to srcs[0..count-1], as a sequence (count is its length)
attr_decide_sources(flags, has_wd, has_index) ==
    (CASE flags % 4 = GIT_ATTR_CHECK_FILE_THEN_INDEX ->
            (IF has_wd THEN << GIT_ATTR_FILE_SOURCE_FILE >> ELSE << >>)
            \o (IF has_index THEN << GIT_ATTR_FILE_SOURCE_INDEX >> ELSE << >>)
       [] flags % 4 = GIT_ATTR_CHECK_INDEX_THEN_FILE ->
            (IF has_index THEN << GIT_ATTR_FILE_SOURCE_INDEX >> ELSE << >>)
            \o (IF has_wd THEN << GIT_ATTR_FILE_SOURCE_FILE >> ELSE << >>)
       [] flags % 4 = GIT_ATTR_CHECK_INDEX_ONLY ->
            IF has_index THEN << GIT_ATTR_FILE_SOURCE_INDEX >> ELSE << >>
       [] OTHER -> << >>)
    \o (IF Bit(flags, GIT_ATTR_CHECK_INCLUDE_HEAD)
        THEN << GIT_ATTR_FILE_SOURCE_COMMIT >> ELSE << >>)

\* ---------------------------------------------------------- push_attr_source
git_vector_insert(st, file) ==
    IF repo.fault = "vector_insert"
    THEN Result(st, GIT_ERROR)
    ELSE Result([st EXCEPT !.files = Append(@, file)], 0)

\* line 494-495, v: what git_vector_insert returned
push_inserted(v, file) ==
    IF v.error < 0 THEN Result(git_attr_file__free(v.st, file), v.error) ELSE v

\* mutant: a source without a file is reported as GIT_ENOTFOUND
push_got_enotfound(g) ==
    IF g.error < 0 THEN Result(g.st, g.error)
    ELSE IF g.file # NoFile
    THEN push_inserted(git_vector_insert(g.st, g.file), g.file)
    ELSE Result(g.st, GIT_ENOTFOUND)

\* line 490-498, g: what git_attr_cache__get returned
push_got(g) ==
    IF g.error < 0 THEN Result(g.st, g.error)
    ELSE IF g.file # NoFile
    THEN push_inserted(git_vector_insert(g.st, g.file), g.file)
    ELSE Result(g.st, g.error)

push_attr_source(st, source, allow_macros) ==
    push_got(git_attr_cache__get(st, source, allow_macros, "push"))

push_attr_file(st, base, filename) ==
    push_attr_source(st, Source(GIT_ATTR_FILE_SOURCE_FILE, base, filename), TRUE)

\* ------------------------------------------------------------- push_one_attr
WalkInfo(flags) ==
    [flags |-> flags, workdir |-> repo.workdir, index |-> repo.index_ok]

\* mutant: macros trusted in every directory of a work-tree
allow_macros_anywhere(info, path) == info.workdir # NoDir

allow_macros_at(info, path) ==
    IF info.workdir # NoDir THEN info.workdir = path ELSE FALSE

\* line 523-528: for (i = 0; !error && i < n_src; ++i)
RECURSIVE push_sources(_, _, _, _, _)
push_sources(r, src, i, path, allow_macros) ==
    IF r.error # 0 \/ i > Len(src) THEN r
    ELSE push_sources(
             push_attr_source(r.st, Source(src[i], path, GIT_ATTR_FILE),
                              allow_macros),
             src, i + 1, path, allow_macros)

push_one_attr(st, info, path) ==
    push_sources(Result(st, 0),
                 attr_decide_sources(info.flags, info.workdir # NoDir, info.index),
                 1, path, allow_macros_at(info, path))

\* ---------------------------------------------------------- git_path_walk_up
\* yields the start directory and, inside a work-tree, every ancestor up to
\* and including the ceiling; a callback error stops the walk
RECURSIVE git_path_walk_up(_, _, _, _)
git_path_walk_up(r, level, ceiling, info) ==
    IF r.error # 0 THEN r
    ELSE IF ceiling = NoDir \/ Dirs[level + 1] = ceiling
    THEN push_one_attr(r.st, info, Dirs[level + 1])
    ELSE git_path_walk_up(push_one_attr(r.st, info, Dirs[level + 1]),
                          level - 1, ceiling, info)

\* -------------------------------------------------------- release_attr_files
RECURSIVE free_files(_, _, _)
free_files(st, files, i) ==
    IF i > Len(files) THEN st
    ELSE free_files(git_attr_file__free(st, files[i]), files, i + 1)

release_attr_files(st) ==
    [free_files(st, st.files, 1) EXCEPT !.files = << >>]

\* -------------------------------------------------------- collect_attr_files
\* line 560-570: the directory of the path
collect_dir(r) ==
    IF r.error < 0 THEN r
    ELSE IF repo.fault = "find_dir" THEN Result(r.st, GIT_ERROR)
    ELSE r

\* line 579-583: the info file
collect_info(r) ==
    IF r.error < 0 THEN r
    ELSE IF repo.info_item < 0
    THEN ignore_enotfound(Result(r.st, repo.info_item))
    ELSE ignore_enotfound(push_attr_file(r.st, InfoDir, GIT_ATTR_FILE_INREPO))

\* mutant: the walk of a repository without a work-tree goes up to the root
collect_dirs_to_root(r, flags, depth) ==
    IF r.error < 0 THEN r
    ELSE git_path_walk_up(Result(r.st, 0), depth, Dirs[1], WalkInfo(flags))

\* line 593-596: the directories; the directory of a root-level path of a
\* repository without a work-tree is "."
collect_dirs(r, flags, depth) ==
    IF r.error < 0 THEN r
    ELSE IF repo.workdir = NoDir /\ depth = 0
    THEN push_one_attr(r.st, WalkInfo(flags), Dirs[1])
    ELSE git_path_walk_up(Result(r.st, 0), depth, repo.workdir, WalkInfo(flags))

\* line 601-605: the configured extra file
collect_cfg(r) ==
    IF r.error < 0 THEN r
    ELSE IF repo.cfg_attr_file # NoDir
    THEN push_attr_file(r.st, NoDir, repo.cfg_attr_file)
    ELSE r

\* line 610-613, s: what system_attr_file returned
collect_system_file(s) ==
    IF s.error = 0 THEN push_attr_file(s.st, NoDir, s.out)
    ELSE IF s.error = GIT_ENOTFOUND THEN Result(s.st, 0)
    ELSE Result(s.st, s.error)

\* line 607-614: the system file
collect_system(r, as, flags) ==
    IF r.error < 0 THEN r
    ELSE IF ~Bit(flags, GIT_ATTR_CHECK_NO_SYSTEM)
    THEN collect_system_file(system_attr_file(r.st, as))
    ELSE r

\* mutant: a failed collection keeps the files pushed so far
collect_cleanup_skipped(r) == r

\* line 616-622
collect_cleanup(r) ==
    IF r.error < 0 THEN Result(release_attr_files(r.st), r.error) ELSE r

\* mutant: the configured file pushed before the directories
collect_files_cfg_first(r, as, flags, depth) ==
    IF r.error < 0 THEN r
    ELSE collect_cleanup(
             collect_system(
                 collect_dirs(collect_cfg(collect_info(collect_dir(r))),
                              flags, depth),
                 as, flags))

\* line 560-622, r: what attr_setup returned
collect_files(r, as, flags, depth) ==
    IF r.error < 0 THEN r
    ELSE collect_cleanup(
             collect_system(
                 collect_cfg(
                     collect_dirs(collect_info(collect_dir(r)), flags, depth)),
                 as, flags))

collect_attr_files(st, as, flags, depth) ==
    collect_files(attr_setup(st, as, flags), as, flags, depth)

\* ------------------------------------------------------------ git_attr_value
git_attr_value(attr) ==
    IF attr = NULL \/ attr = git_attr__unset THEN GIT_ATTR_VALUE_UNSPECIFIED
    ELSE IF attr = git_attr__true THEN GIT_ATTR_VALUE_TRUE
    ELSE IF attr = git_attr__false THEN GIT_ATTR_VALUE_FALSE
    ELSE GIT_ATTR_VALUE_STRING

\* ------------------------------------------------------------ rule matching
\* git_attr_file__foreach_matching_rule: the rules of a file whose pattern
\* matches the path, the last rule of the file first
RECURSIVE matching_from(_, _, _)
matching_from(rules, j, depth) ==
    IF j = 0 THEN << >>
    ELSE (IF depth \in rules[j].pattern THEN << rules[j] >> ELSE << >>)
         \o matching_from(rules, j - 1, depth)

foreach_matching_rule(file, depth) ==
    matching_from(Content(file), Len(Content(file)), depth)

\* the matching rules of a file vector in the order the resolvers visit them
RECURSIVE visit_from(_, _, _)
visit_from(files, i, depth) ==
    IF i > Len(files) THEN << >>
    ELSE foreach_matching_rule(files[i], depth) \o visit_from(files, i + 1, depth)

\* position of the assignment of a name in a rule, 0 when there is none
git_vector_bsearch(assigns, name) ==
    IF \E p \in 1..Len(assigns) : assigns[p].name = name
    THEN CHOOSE p \in 1..Len(assigns) : assigns[p].name = name
    ELSE 0

\* the outcome of a call, before it is recorded
Outcome(st, error, values, reported, path_live, coll) ==
    [st |-> st, error |-> error, values |-> values, reported |-> reported,
     path_live |-> path_live, coll |-> coll]

\* the references a call holds: the files with a non-zero count, each with
\* its count (negative: released more often than obtained)
Outstanding(held) == {<< s, held[s] >> : s \in {x \in Sources : held[x] # 0}}

NotCollected == [called |-> FALSE, error |-> 0, files |-> << >>, held |-> {}]
Collected(r) ==
    [called |-> TRUE, error |-> r.error, files |-> r.st.files,
     held |-> Outstanding(r.st.held)]

\* --------------------------------------------------------------- git_attr_get
\* mutant: the scan does not stop at the first assignment found
RECURSIVE get_scan_last(_, _, _)
get_scan_last(rules, j, name) ==
    IF j > Len(rules) THEN NULL
    ELSE IF git_vector_bsearch(rules[j].assigns, name) # 0
            /\ get_scan_last(rules, j + 1, name) = NULL
    THEN rules[j].assigns[git_vector_bsearch(rules[j].assigns, name)].value
    ELSE get_scan_last(rules, j + 1, name)

\* line 80-91
RECURSIVE get_scan(_, _, _)
get_scan(rules, j, name) ==
    IF j > Len(rules) THEN NULL
    ELSE IF git_vector_bsearch(rules[j].assigns, name) # 0
    THEN rules[j].assigns[git_vector_bsearch(rules[j].assigns, name)].value
    ELSE get_scan(rules, j + 1, name)

\* line 73-97, c: what collect_attr_files returned
get_collected(c, depth, name) ==
    Outcome(release_attr_files(c.st), c.error,
            << IF c.error < 0 THEN NULL
               ELSE get_scan(visit_from(c.st.files, 1, depth), 1, name) >>,
            << >>, FALSE, Collected(c))

git_attr_get(st, flags, depth, name) ==
    IF repo.fault = "path_init"
    THEN Outcome(st, GIT_ERROR, << NULL >>, << >>, FALSE, NotCollected)
    ELSE get_collected(collect_attr_files(st, FALSE, flags, depth), depth, name)

\* ---------------------------------------------- git_attr_get_many_with_session
\* m: the found flags of info[], the output buffer and num_found
many_found(m, k, value, num_attr) ==
    [m EXCEPT !.found[k] = TRUE, !.values[k] = value, !.num_found = @ + 1,
              !.done = (m.num_found + 1 = num_attr)]

\* line 149-168
RECURSIVE many_names(_, _, _, _)
many_names(m, rule, k, names) ==
    IF k > Len(names) \/ m.done THEN m
    ELSE IF m.found[k] THEN many_names(m, rule, k + 1, names)
    ELSE IF git_vector_bsearch(rule.assigns, names[k]) # 0
    THEN many_names(
             many_found(m, k,
                 rule.assigns[git_vector_bsearch(rule.assigns, names[k])].value,
                 Len(names)),
             rule, k + 1, names)
    ELSE many_names(m, rule, k + 1, names)

\* line 145-170
RECURSIVE many_rules(_, _, _, _)
many_rules(m, rules, j, names) ==
    IF j > Len(rules) \/ m.done THEN m
    ELSE many_rules(many_names(m, rules[j], 1, names), rules, j + 1, names)

\* mutant: the slots of the names not found are left as they were
many_fill_skipped(m) == m

\* line 172-175
many_fill(m) ==
    IF m.done THEN m
    ELSE [m EXCEPT !.values = [k \in DOMAIN m.values |->
                                 IF m.found[k] THEN m.values[k] ELSE NULL]]

many_start(names, values) ==
    [found |-> [k \in DOMAIN names |-> FALSE], values |-> values,
     num_found |-> 0, done |-> FALSE]

\* line 139-182, c: what collect_attr_files returned
many_collected(c, depth, names, values) ==
    IF c.error < 0
    THEN Outcome(release_attr_files(c.st), c.error, values, << >>, FALSE,
                 Collected(c))
    ELSE IF repo.fault = "calloc"
    THEN Outcome(c.st, GIT_ERROR, values, << >>, TRUE, Collected(c))
    ELSE Outcome(release_attr_files(c.st), c.error,
                 many_fill(many_rules(many_start(names, values),
                                      visit_from(c.st.files, 1, depth),
                                      1, names)).values,
                 << >>, FALSE, Collected(c))

git_attr_get_many_with_session(st, as, flags, depth, names, values) ==
    IF repo.fault = "path_init"
    THEN Outcome(st, GIT_ERROR, values, << >>, FALSE, NotCollected)
    ELSE many_collected(collect_attr_files(st, as, flags, depth),
                        depth, names, values)

\* ----------------------------------------------------------- git_attr_foreach
\* the callback answers its stop_at-th invocation with a non-zero value
callback(n, stop_at) == IF n = stop_at THEN n ELSE 0

\* mutant: no name is ever found in the seen map
foreach_seen_never(f, name) == FALSE

\* line 234: git_strmap_exists(seen, assign->name)
foreach_seen(f, name) == name \in f.seen

\* f: the seen map, the pairs reported to the callback and the error
\* line 231-244
RECURSIVE foreach_assigns(_, _, _, _)
foreach_assigns(f, assigns, k, stop_at) ==
    IF k > Len(assigns) \/ f.error # 0 THEN f
    ELSE IF foreach_seen(f, assigns[k].name)
    THEN foreach_assigns(f, assigns, k + 1, stop_at)
    ELSE IF repo.fault = "strmap_set"
    THEN [f EXCEPT !.error = GIT_ERROR]
    ELSE foreach_assigns(
             [f EXCEPT !.seen = @ \cup {assigns[k].name},
                       !.reported = Append(@, assigns[k]),
                       !.error = callback(Len(f.reported) + 1, stop_at)],
             assigns, k + 1, stop_at)

\* mutant: only the first matching rule is enumerated
foreach_rules_first(f, rules, j, stop_at) ==
    IF j > Len(rules) \/ f.error # 0 THEN f
    ELSE foreach_assigns(f, rules[j].assigns, 1, stop_at)

\* line 227-246
RECURSIVE foreach_rules(_, _, _, _)
foreach_rules(f, rules, j, stop_at) ==
    IF j > Len(rules) \/ f.error # 0 THEN f
    ELSE foreach_rules(foreach_assigns(f, rules[j].assigns, 1, stop_at),
                       rules, j + 1, stop_at)

\* line 248-253, f: what the loops left
foreach_done(c, f) ==
    Outcome(release_attr_files(c.st), f.error, << >>, f.reported, FALSE,
            Collected(c))

\* line 223-253, c: what collect_attr_files returned
foreach_collected(c, depth, stop_at) ==
    IF c.error < 0
    THEN Outcome(release_attr_files(c.st), c.error, << >>, << >>, FALSE,
                 Collected(c))
    ELSE IF repo.fault = "strmap_new"
    THEN Outcome(release_attr_files(c.st), GIT_ERROR, << >>, << >>, FALSE,
                 Collected(c))
    ELSE foreach_done(c, foreach_rules(
                             [seen |-> {}, reported |-> << >>, error |-> 0],
                             visit_from(c.st.files, 1, depth), 1, stop_at))

git_attr_foreach(st, flags, depth, stop_at) ==
    IF repo.fault = "path_init"
    THEN Outcome(st, GIT_ERROR, << >>, << >>, FALSE, NotCollected)
    ELSE foreach_collected(collect_attr_files(st, FALSE, flags, depth),
                           depth, stop_at)

\* -------------------------------------------------------------- state machine
\* the lists of names tried: one name repeated, or two names alternating
Repeated(n, x) == [i \in 1..n |-> x]
Alternating(n, x, y) == [i \in 1..n |-> IF i % 2 = 1 THEN x ELSE y]
NameLists ==
    UNION {{Repeated(n, "a"), Repeated(n, "b"), Alternating(n, "a", "b"),
            Alternating(n, "b", "a")} : n \in 1..MaxNames}

NoCall ==
    [op |-> "none", as |-> FALSE, flags |-> 0, depth |-> 0, names |-> << >>,
     stop_at |-> 0, before |-> << >>, error |-> 0, values |-> << >>,
     reported |-> << >>, log |-> << >>, held |-> {}, path_live |-> FALSE,
     coll |-> NotCollected, kind |-> {}, has_wd |-> FALSE,
     has_index |-> FALSE, n_src |-> 0, src |-> << >>]

Record(op, as, flags, depth, names, stop_at, before, o) ==
    [op |-> op, as |-> as, flags |-> flags, depth |-> depth, names |-> names,
     stop_at |-> stop_at, before |-> before, error |-> o.error,
     values |-> o.values, reported |-> o.reported, log |-> o.st.log,
     held |-> Outstanding(o.st.held), path_live |-> o.path_live,
     coll |-> o.coll, kind |-> {}, has_wd |-> FALSE, has_index |-> FALSE,
     n_src |-> 0, src |-> << >>]

NewSession == [init_sysdir |-> FALSE, sysdir |-> NoDir, init_setup |-> FALSE]

Init ==
    /\ repo \in Repos
    /\ session = NewSession
    /\ preloaded = << >>
    /\ call = NoCall

\* the sources a call asked the cache to preload, in request order
RECURSIVE preloads_from(_, _)
preloads_from(log, i) ==
    IF i > Len(log) THEN << >>
    ELSE (IF log[i].ev = "preload" THEN << log[i].source >> ELSE << >>)
         \o preloads_from(log, i + 1)
Preloads(log) == preloads_from(log, 1)

\* the call returns: its record is kept and the session is as it left it
Returns(op, as, flags, depth, names, stop_at, before, o) ==
    /\ call' = Record(op, as, flags, depth, names, stop_at, before, o)
    /\ session' = o.st.session
    /\ preloaded' = IF o.st.session.init_setup /\ ~session.init_setup
                    THEN Preloads(o.st.log) ELSE preloaded
    /\ UNCHANGED repo

\* a call is made once the result of the one before has been taken
Get ==
    /\ call.op = "none"
    /\ \E flags \in Flags, depth \in Levels, name \in Names :
           Returns("get", FALSE, flags, depth, << name >>, 0, << JUNK >>,
                   git_attr_get(Start(session), flags, depth, name))

GetMany ==
    /\ call.op = "none"
    /\ \E as \in BOOLEAN, flags \in Flags, depth \in Levels, names \in NameLists :
           Returns("get_many", as, flags, depth, names, 0,
                   [k \in DOMAIN names |-> JUNK],
                   git_attr_get_many_with_session(
                       Start(session), as, flags, depth, names,
                       [k \in DOMAIN names |-> JUNK]))

Foreach ==
    /\ call.op = "none"
    /\ \E flags \in Flags, depth \in Levels, stop_at \in 0..MaxAbort :
           Returns("foreach", FALSE, flags, depth, << >>, stop_at, << >>,
                   git_attr_foreach(Start(session), flags, depth, stop_at))

\* the pointers a caller can hand to git_attr_value: what a lookup can
\* have stored in its output
Pointers ==
    {NULL, git_attr__true, git_attr__false, git_attr__unset, Str(11), Str(12)}

\* the caller classifies a lookup result
Value ==
    /\ call.op = "none"
    /\ \E attr \in Pointers :
           call' = [NoCall EXCEPT !.op = "value", !.values = << attr >>,
                                  !.kind = {git_attr_value(attr)}]
    /\ UNCHANGED << repo, session, preloaded >>

\* the array src[GIT_ATTR_FILE_NUM_SOURCES] of push_one_attr after the
\* call: the slots attr_decide_sources wrote, the others uninitialised; a
\* write past the end lands outside the array
SrcArray(written) ==
    [i \in 1..GIT_ATTR_FILE_NUM_SOURCES |->
        IF i <= Len(written) THEN written[i] ELSE "uninitialised"]

\* push_one_attr asks which sources to push, for any walk info
Decide ==
    /\ call.op = "none"
    /\ \E flags \in Flags, has_wd \in BOOLEAN, has_index \in BOOLEAN :
           call' = [NoCall EXCEPT
                      !.op = "decide", !.flags = flags, !.has_wd = has_wd,
                      !.has_index = has_index,
                      !.n_src = Len(attr_decide_sources(flags, has_wd, has_index)),
                      !.src = SrcArray(attr_decide_sources(flags, has_wd,
                                                           has_index))]
    /\ UNCHANGED << repo, session, preloaded >>

\* the caller takes the result; the session outlives the call
Return ==
    /\ call.op # "none"
    /\ call' = NoCall
    /\ UNCHANGED << repo, session, preloaded >>

Next == Get \/ GetMany \/ Foreach \/ Value \/ Decide \/ Return

Spec == Init /\ [][Next]_vars

\* ===================================================================== claims
\* helpers of the claims: what a file vector means for a path and a name
AssignsName(rule, name) == \E p \in 1..Len(rule.assigns) : rule.assigns[p].name = name
ValueIn(rule, name) ==
    (CHOOSE a \in {rule.assigns[p] : p \in 1..Len(rule.assigns)} : a.name = name).value
\* rule j of file F[i] matches the path and assigns the name
Decides(F, i, j, depth, name) ==
    /\ depth \in Content(F[i])[j].pattern
    /\ AssignsName(Content(F[i])[j], name)
DecidingFiles(F, depth, name) ==
    {i \in 1..Len(F) : \E j \in 1..Len(Content(F[i])) : Decides(F, i, j, depth, name)}
Min(S) == CHOOSE x \in S : \A y \in S : x <= y
Max(S) == CHOOSE x \in S : \A y \in S : x >= y
\* the value of the highest-precedence matching assignment, NULL without one
Precedent(F, depth, name) ==
    IF DecidingFiles(F, depth, name) = {} THEN NULL
    ELSE LET i == Min(DecidingFiles(F, depth, name))
             j == Max({r \in 1..Len(Content(F[i])) : Decides(F, i, r, depth, name)})
         IN  ValueIn(Content(F[i])[j], name)

\* C1: a successful get returns the value of the highest-precedence matching
\* assignment of the name: the first file of the collected vector with a
\* matching rule that assigns the name decides, within that file the last
\* such rule, and the result is NULL when no matching rule assigns the name.
C1_GetPrecedence ==
    (call.op = "get" /\ call.error = 0)
        => call.values[1] = Precedent(call.coll.files, call.depth, call.names[1])

\* a get decided by the second of two matching rules of a file that is not
\* the first of the vector
C1_Witness ==
    /\ call.op = "get" /\ call.error = 0
    /\ call.values[1] # NULL
    /\ LET F == call.coll.files
           D == DecidingFiles(F, call.depth, call.names[1])
       IN  /\ D # {}
           /\ Min(D) > 1
           /\ Cardinality(D) > 1
           /\ Cardinality({r \in 1..Len(Content(F[Min(D)])) :
                              Decides(F, Min(D), r, call.depth, call.names[1])}) > 1

\* precedence rank of a file for a query path of the given depth
Rank(file, depth) ==
    CASE file = InfoSource -> 0
      [] file = CfgSource -> depth + 2
      [] file = SystemSource -> depth + 3
      [] OTHER -> 1 + (depth - LevelOf(file))

\* the vector is in precedence order, without a file twice, and holds only
\* directories between the root and the directory of the path
InOrder(F, depth) ==
    /\ \A i, j \in 1..Len(F) : i < j => /\ F[i] # F[j]
                                        /\ Rank(F[i], depth) <= Rank(F[j], depth)
    /\ \A i \in 1..Len(F) : F[i] \in DirSources => LevelOf(F[i]) \in 0..depth

Has(F, file) == \E i \in 1..Len(F) : F[i] = file

Requests(log) == {i \in 1..Len(log) : log[i].ev \in {"preload", "push"}}

\* the source types pushed for one directory, in request order
RECURSIVE PushedTypes(_, _, _)
PushedTypes(log, i, dir) ==
    IF i > Len(log) THEN << >>
    ELSE (IF log[i].ev = "push" /\ log[i].source.base = dir
             /\ log[i].source.filename = GIT_ATTR_FILE
          THEN << log[i].source.type >> ELSE << >>)
         \o PushedTypes(log, i + 1, dir)

IsPrefix(s, t) == Len(s) <= Len(t) /\ \A i \in 1..Len(s) : s[i] = t[i]

BackendOrder(flags) ==
    (CASE flags % 4 = 0 -> << "FILE", "INDEX" >>
       [] flags % 4 = 1 -> << "INDEX", "FILE" >>
       [] OTHER -> << "INDEX" >>)
    \o (IF flags >= 8 THEN << "COMMIT" >> ELSE << >>)

\* C3: with a work-tree and an index, at every directory level of the walk
\* the backends are requested in the order the source-order value of flags
\* fixes (0: file, index; 1: index, file; 2: index), followed by the HEAD
\* blob exactly when INCLUDE_HEAD is set; no other flag bit matters.
C3_BackendOrder ==
    (call.coll.called /\ repo.workdir # NoDir /\ repo.index_ok
     /\ call.flags % 4 # 3)
        => \A l \in 0..call.depth :
               LET t == PushedTypes(call.log, 1, Dirs[l + 1]) IN
               /\ IsPrefix(t, BackendOrder(call.flags))
               /\ call.coll.error = 0 => t = BackendOrder(call.flags)
               /\ call.flags < 8 =>
                      \A i \in Requests(call.log) :
                          call.log[i].source.type # "COMMIT"

\* index-then-file with INCLUDE_HEAD and NO_SYSTEM, walked over two levels
C3_Witness ==
    /\ call.coll.called /\ call.coll.error = 0
    /\ repo.workdir # NoDir /\ repo.index_ok
    /\ call.flags = 13 /\ call.depth >= 1
    /\ PushedTypes(call.log, 1, Dirs[1]) = << "INDEX", "FILE", "COMMIT" >>

TrustedFiles ==
    {SystemSource, CfgSource, InfoSource, DirSource(GIT_ATTR_FILE_SOURCE_FILE, 0)}

\* C4 as stated: every cache request with allow_macros true is for one of
\* the four trusted filesystem files; index and commit blobs never are.
C4_MacrosOnlyTrustedFiles ==
    \A i \in Requests(call.log) :
        call.log[i].allow_macros => call.log[i].source \in TrustedFiles

\* C4: allow_macros is true only for the four trusted filesystem files and
\* for the index or HEAD blob of the root .gitattributes (the preloads of
\* attr_setup and the pushes at the work-tree root); every request, of any
\* backend, for a directory below the root is made with allow_macros false,
\* and so is every push in a repository without a work-tree.
C4_MacrosOnlyAtRoot ==
    \A i \in Requests(call.log) :
        LET e == call.log[i] IN
        /\ e.allow_macros =>
               \/ e.source \in TrustedFiles
               \/ /\ e.source.type \in {"INDEX", "COMMIT"}
                  /\ Key(e.source).base = Dirs[1]
                  /\ e.ev = "push" => repo.workdir # NoDir
        /\ (Key(e.source) \in DirSources /\ LevelOf(Key(e.source)) > 0)
               => ~e.allow_macros
        /\ e.ev = "preload" => e.allow_macros

\* a query that walks from a subdirectory to the root with all three
\* backends: blobs below the root untrusted, blobs of the root trusted
C4_Witness ==
    /\ call.coll.called /\ call.coll.error = 0 /\ call.depth >= 1
    /\ \E i, j, k \in Requests(call.log) :
          /\ call.log[i].ev = "push" /\ call.log[i].source.type = "INDEX"
          /\ call.log[i].source.base = Dirs[2] /\ ~call.log[i].allow_macros
          /\ call.log[j].ev = "push" /\ call.log[j].source.type = "COMMIT"
          /\ call.log[j].source.base = Dirs[1] /\ call.log[j].allow_macros
          /\ call.log[k].ev = "push" /\ call.log[k].source.type = "FILE"
          /\ call.log[k].source.base = Dirs[2] /\ ~call.log[k].allow_macros

\* C5: when get_many and get both succeed on the same repository, flags and
\* path, the i-th output of get_many is the result of get for the i-th name
\* (NULL included), whether or not get_many stopped early.
C5_GetManyIsGet ==
    (call.op = "get_many" /\ call.error = 0)
        => \A i \in 1..Len(call.names) :
               LET g == git_attr_get(Start(session), call.flags, call.depth,
                                     call.names[i])
               IN  g.error = 0 => call.values[i] = g.values[1]

\* a get_many with a repeated name and one with a name left unresolved
C5_Witness ==
    /\ call.op = "get_many" /\ call.error = 0
    /\ Len(call.names) = 2
    /\ \/ call.names[1] = call.names[2] /\ call.values[1] # NULL
       \/ call.values[1] # NULL /\ call.values[2] = NULL

RECURSIVE FirstNamed(_, _, _)
FirstNamed(reported, i, name) ==
    IF i > Len(reported) THEN NULL
    ELSE IF reported[i].name = name THEN reported[i].value
    ELSE FirstNamed(reported, i + 1, name)

\* C6: with a callback that always returns zero, get(p, n) is the value of
\* the first pair named n that foreach(p) reports, and it is NULL exactly
\* when foreach(p) reports no pair named n.
C6_GetIsFirstOfForeach ==
    (call.op = "foreach" /\ call.stop_at = 0 /\ call.error = 0)
        => \A n \in Names :
               LET g == git_attr_get(Start(session), call.flags, call.depth, n)
               IN  g.error = 0 =>
                      /\ g.values[1] = FirstNamed(call.reported, 1, n)
                      /\ g.values[1] = NULL
                            <=> ~\E i \in 1..Len(call.reported) :
                                     call.reported[i].name = n

\* a foreach that reports one name and not the other
C6_Witness ==
    /\ call.op = "foreach" /\ call.stop_at = 0 /\ call.error = 0
    /\ Len(call.reported) = 1
    /\ Len(call.coll.files) > 1

\* the outcome of the cache for a request of the log
Load(e) == repo.load[Key(e.source)]
\* no request and no lookup of the call ended in an error other than
\* GIT_ENOTFOUND, and nothing else failed
OnlyMissing ==
    /\ call.coll.called
    /\ repo.fault \notin {"cache_init", "find_dir", "vector_insert"}
    /\ repo.index_ok
    /\ repo.info_item # GIT_ERROR
    /\ \A i \in 1..Len(call.log) :
          /\ call.log[i].ev = "sysdir" => repo.sysdir_find # GIT_ERROR
          /\ call.log[i].ev # "sysdir" => Load(call.log[i]) # "err"

\* the sources collection asks for: directory levels and backends by flags
WantedLevels == IF repo.workdir = NoDir THEN {call.depth} ELSE 0..call.depth
WantedTypes ==
    (CASE call.flags % 4 = 0 -> IF repo.workdir = NoDir THEN {"INDEX"}
                                ELSE {"FILE", "INDEX"}
       [] call.flags % 4 = 1 -> IF repo.workdir = NoDir THEN {"INDEX"}
                                ELSE {"FILE", "INDEX"}
       [] call.flags % 4 = 2 -> {"INDEX"}
       [] OTHER -> {})
    \cup (IF call.flags >= 8 THEN {"COMMIT"} ELSE {})
Wanted ==
    (IF repo.info_item = 0 THEN {InfoSource} ELSE {})
    \cup {DirSource(t, l) : t \in WantedTypes, l \in WantedLevels}
    \cup (IF repo.cfg_attr_file # NoDir THEN {CfgSource} ELSE {})
    \cup (IF ~Bit(call.flags, GIT_ATTR_CHECK_NO_SYSTEM) /\ repo.sysdir_find = 0
          THEN {SystemSource} ELSE {})

\* C7: when sources are missing (no file, or GIT_ENOTFOUND from the info or
\* system lookup) and nothing fails otherwise, collection succeeds, every
\* remaining source is still requested, and the vector holds exactly the
\* existing sources, in precedence order.
C7_MissingIsNoError ==
    OnlyMissing =>
        LET F == call.coll.files IN
        /\ call.coll.error = 0
        /\ \A s \in Wanted : \E i \in 1..Len(call.log) :
               call.log[i].ev = "push" /\ call.log[i].source = s
        /\ {F[i] : i \in 1..Len(F)} = {s \in Wanted : repo.load[s] = "ok"}
        /\ InOrder(F, call.depth)

\* a walk whose deepest directory lacks a file and goes on to the root
C7_Witness ==
    /\ OnlyMissing /\ call.depth >= 1
    /\ \E s \in Wanted : /\ s \in DirSources /\ LevelOf(s) = call.depth
                         /\ repo.load[s] = "missing"
    /\ \E i \in 1..Len(call.coll.files) :
          /\ call.coll.files[i] \in DirSources
          /\ LevelOf(call.coll.files[i]) = 0

FailedLoads ==
    {i \in Requests(call.log) : Load(call.log[i]) = "err"}

\* C8: when a load fails with an error other than GIT_ENOTFOUND, collection
\* stops at once: the failed request is the last one made, that error is
\* returned, the vector handed back is empty and every reference obtained
\* has been released exactly once.
C8_ErrorStopsCollection ==
    /\ (call.coll.called /\ FailedLoads # {})
          => /\ FailedLoads = {Len(call.log)}
             /\ call.coll.error = GIT_ERROR
             /\ call.error = call.coll.error
    /\ (call.coll.called /\ call.coll.error < 0)
          => /\ call.coll.files = << >>
             /\ call.coll.held = {}

\* a load that fails after files have been pushed
C8_Witness ==
    /\ call.coll.called /\ FailedLoads # {}
    /\ call.log[Len(call.log)].ev = "push"
    /\ Cardinality({i \in Requests(call.log) :
                       call.log[i].ev = "push" /\ Load(call.log[i]) = "ok"}) >= 2

\* C9 as stated: whenever get_many returns an error every output slot is
\* NULL, whatever the buffer held before the call.
C9_ErrorNullsOutputs ==
    (call.op = "get_many" /\ call.error < 0)
        => \A k \in 1..Len(call.values) : call.values[k] = NULL

\* C10 as stated: when a call returns, by any exit path, every file
\* reference obtained during the call has been released exactly once and
\* the path scratch object has been freed.
C10_NothingLeftHeld ==
    call.op # "none" => (call.held = {} /\ ~call.path_live)

\* the assignments of the matching rules of a vector, as positions
\* << file, rule, assignment >>
Positions(F, depth) ==
    {<< i, j, k >> \in (1..Len(F)) \X (1..3) \X (1..2) :
        /\ j <= Len(Content(F[i]))
        /\ depth \in Content(F[i])[j].pattern
        /\ k <= Len(Content(F[i])[j].assigns)}
At(F, p) == Content(F[p[1]])[p[2]].assigns[p[3]]
\* precedence: earlier file, then later rule of the file, then earlier
\* assignment of the rule
Precedes(p, q) ==
    \/ p[1] < q[1]
    \/ p[1] = q[1] /\ p[2] > q[2]
    \/ p[1] = q[1] /\ p[2] = q[2] /\ p[3] < q[3]
\* the highest-precedence assignment of each distinct name
Firsts(F, depth) ==
    LET P == Positions(F, depth)
    IN  {p \in P : ~\E q \in P : Precedes(q, p) /\ At(F, q).name = At(F, p).name}
\* the m-th position of a set in precedence order
Nth(S, m) ==
    CHOOSE p \in S : Cardinality({q \in S : Precedes(q, p)}) = m - 1
ForeachRan ==
    /\ call.op = "foreach" /\ call.coll.called /\ call.coll.error = 0
    /\ repo.fault \notin {"strmap_new", "strmap_set"}

\* C11: in a foreach whose collection and allocations succeed the callback
\* is invoked at most once per name, with the highest-precedence assignment
\* of each name, in precedence order; the first invocation that returns a
\* non-zero value is the last one and foreach returns exactly that value;
\* when every invocation returns zero every distinct name assigned by a
\* matching rule has been reported and foreach returns zero.
C11_ForeachCallback ==
    ForeachRan =>
        LET F == call.coll.files
            R == call.reported
            n == Len(call.reported)
            S == Firsts(call.coll.files, call.depth)
        IN  /\ \A x, y \in 1..n : x # y => R[x].name # R[y].name
            /\ n <= Cardinality(S)
            /\ \A m \in 1..n : R[m] = At(F, Nth(S, m))
            /\ \A m \in 1..(n - 1) : callback(m, call.stop_at) = 0
            /\ IF n > 0 /\ callback(n, call.stop_at) # 0
               THEN call.error = callback(n, call.stop_at)
               ELSE /\ call.error = 0
                    /\ n = Cardinality(S)

\* a foreach stopped by its first invocation with a second name still to
\* report, and a name assigned by several matching rules reported once
C11_Witness ==
    /\ ForeachRan
    /\ call.stop_at = 1 /\ call.error = 1 /\ Len(call.reported) = 1
    /\ Cardinality(Firsts(call.coll.files, call.depth)) = 2
    /\ Cardinality(Positions(call.coll.files, call.depth)) > 3


\* C12 as stated: in a query with NO_SYSTEM the system attribute file is
\* never requested from the cache, neither as a preload nor as a push, and
\* it is not in the collected vector.
C12_NoSystemSkipsSystemFile ==
    (call.coll.called /\ Bit(call.flags, GIT_ATTR_CHECK_NO_SYSTEM))
        => /\ \A i \in Requests(call.log) : call.log[i].source # SystemSource
           /\ ~Has(call.coll.files, SystemSource)

\* the log holds a request of the given kind for the source
Asked(ev, source) ==
    \E i \in Requests(call.log) :
        call.log[i].ev = ev /\ call.log[i].source = source
RootBlob(type) == Source(type, NoDir, GIT_ATTR_FILE)

\* C13: in a repository without a work-tree no .gitattributes file of the
\* filesystem is requested, neither pushed for a directory nor preloaded
\* for the root, whatever the flags; in a successful collection the index
\* blob of the directory of the path is pushed when the source order is
\* 0, 1 or 2, the HEAD blob exactly when INCLUDE_HEAD is set, each after
\* the preload of the root blob of its kind by a setup that ran, and the
\* blobs that exist are in the vector.
C13_BareRepository ==
    (call.coll.called /\ repo.workdir = NoDir) =>
        /\ \A i \in Requests(call.log) :
               ~(/\ call.log[i].source.type = GIT_ATTR_FILE_SOURCE_FILE
                 /\ call.log[i].source.filename = GIT_ATTR_FILE)
        /\ call.coll.error = 0 =>
               LET index == DirSource(GIT_ATTR_FILE_SOURCE_INDEX, call.depth)
                   head == DirSource(GIT_ATTR_FILE_SOURCE_COMMIT, call.depth)
               IN  /\ Asked("push", index) <=> call.flags % 4 # 3
                   /\ Asked("push", head)
                          <=> Bit(call.flags, GIT_ATTR_CHECK_INCLUDE_HEAD)
                   /\ Asked("push", index) => (Has(call.coll.files, index)
                                                <=> repo.load[index] = "ok")
                   /\ Asked("push", head) => (Has(call.coll.files, head)
                                               <=> repo.load[head] = "ok")
                   /\ Asked("preload", InfoSource) =>
                          /\ Asked("preload", RootBlob(GIT_ATTR_FILE_SOURCE_INDEX))
                          /\ Asked("preload", RootBlob(GIT_ATTR_FILE_SOURCE_COMMIT))
                                <=> Bit(call.flags, GIT_ATTR_CHECK_INCLUDE_HEAD)

\* a get in a repository without a work-tree, file-then-index with
\* INCLUDE_HEAD, answered by the index blob of a subdirectory
C13_Witness ==
    /\ call.op = "get" /\ call.error = 0 /\ repo.workdir = NoDir
    /\ call.flags % 4 = 0 /\ call.flags >= 8 /\ call.depth >= 1
    /\ Has(call.coll.files, DirSource(GIT_ATTR_FILE_SOURCE_COMMIT, call.depth))
    /\ LET F == call.coll.files
           D == DecidingFiles(F, call.depth, call.names[1])
       IN  /\ D # {}
           /\ F[Min(D)] = DirSource(GIT_ATTR_FILE_SOURCE_INDEX, call.depth)
           /\ call.values[1] # NULL

\* C14 as stated: git_attr_value classifies exactly the null pointer as
\* UNSPECIFIED, so the explicit UNSET assignment gets a kind of its own,
\* and TRUE, FALSE and strings each map to their own kind.
C14_UnsetIsNotUnspecified ==
    call.op = "value" =>
        /\ GIT_ATTR_VALUE_UNSPECIFIED \in call.kind <=> call.values[1] = NULL
        /\ GIT_ATTR_VALUE_TRUE \in call.kind <=> call.values[1] = git_attr__true
        /\ GIT_ATTR_VALUE_FALSE \in call.kind <=> call.values[1] = git_attr__false
        /\ GIT_ATTR_VALUE_STRING \in call.kind <=> call.values[1][1] = "str"

\* the directory levels for which the call pushed a .gitattributes source
PushedLevels ==
    {LevelOf(Key(call.log[i].source)) :
        i \in {x \in Requests(call.log) :
                 /\ call.log[x].ev = "push"
                 /\ call.log[x].source.filename = GIT_ATTR_FILE}}

\* C15: in a repository without a work-tree the walk consults only the
\* directory of the query path (the root for a path of the root): no
\* source of any other directory is pushed, whatever the flags, and a
\* collection that succeeds with a source order that selects a backend has
\* consulted that directory.
C15_BareWalkStopsAtStart ==
    (call.coll.called /\ repo.workdir = NoDir) =>
        /\ PushedLevels \subseteq {call.depth}
        /\ (call.coll.error = 0 /\ call.flags % 4 # 3)
               => PushedLevels = {call.depth}

\* a query for a path in a subdirectory of a repository without a
\* work-tree: the subdirectory is consulted, the root is not
C15_Witness ==
    /\ call.coll.called /\ call.coll.error = 0 /\ repo.workdir = NoDir
    /\ call.depth >= 1
    /\ PushedLevels = {call.depth}
    /\ Len(call.coll.files) >= 3

\* the macro-capable sources of the repository, in the order of attr_setup
MacroSources ==
    (IF repo.sysdir_find = 0 THEN << SystemSource >> ELSE << >>)
    \o (IF repo.cfg_attr_file # NoDir THEN << CfgSource >> ELSE << >>)
    \o (IF repo.info_item = 0 THEN << InfoSource >> ELSE << >>)
    \o (IF repo.workdir # NoDir
        THEN << DirSource(GIT_ATTR_FILE_SOURCE_FILE, 0) >> ELSE << >>)
RECURSIVE Only(_, _, _)
Only(seq, i, S) ==
    IF i > Len(seq) THEN << >>
    ELSE (IF seq[i] \in S THEN << seq[i] >> ELSE << >>) \o Only(seq, i + 1, S)
Pushes == {i \in Requests(call.log) : call.log[i].ev = "push"}
\* the preloads a query rests on: its own, or those of the setup that
\* marked its session
SetupPreloads ==
    IF Preloads(call.log) # << >> THEN Preloads(call.log) ELSE preloaded

\* C16: when a query pushes a source for its vector, every preload of the
\* query precedes its first push, and the system file, the configured
\* file, the info file and the work-tree root file (those the repository
\* has) have been preloaded once each, in that order and with macros
\* allowed, by the query itself or by the setup that marked its session.
C16_PreloadBeforePush ==
    Pushes # {} =>
        /\ \A i \in Requests(call.log), j \in Pushes :
               call.log[i].ev = "preload" => i < j
        /\ \A i \in Requests(call.log) :
               call.log[i].ev = "preload" => call.log[i].allow_macros
        /\ Only(SetupPreloads, 1, TrustedFiles) = MacroSources

\* a query of a session that was set up by an earlier query: it pushes
\* without a preload of its own
C16_Witness ==
    /\ Pushes # {} /\ call.as
    /\ Preloads(call.log) = << >>
    /\ Len(MacroSources) = 4
    /\ Len(preloaded) >= 5

\* the number of system-file location lookups a call made
SysLookups(log) == Cardinality({i \in 1..Len(log) : log[i].ev = "sysdir"})
PushedIn(log, source) ==
    \E i \in 1..Len(log) : log[i].ev = "push" /\ log[i].source = source
\* what a definitive lookup leaves in the session
Memoized ==
    IF repo.sysdir_find = 0 THEN GIT_ATTR_FILE_SYSTEM ELSE NoDir

\* a query of a session that holds the answer: no lookup, the answer stays
\* and decides whether the system file is pushed
C17_Memoized ==
    /\ SysLookups(call'.log) = 0
    /\ session'.init_sysdir /\ session'.sysdir = session.sysdir
    /\ (call'.coll.error = 0
        /\ ~Bit(call'.flags, GIT_ATTR_CHECK_NO_SYSTEM))
           => (PushedIn(call'.log, SystemSource) <=> session.sysdir # NoDir)

\* a query of a session that does not hold the answer: one lookup, kept
\* when definitive, returned as the error of the query otherwise
C17_FirstLookup ==
    IF repo.fault = "cache_init"
    THEN SysLookups(call'.log) = 0 /\ session' = session
    ELSE /\ SysLookups(call'.log) = 1
         /\ IF repo.sysdir_find \in {0, GIT_ENOTFOUND}
            THEN session'.init_sysdir /\ session'.sysdir = Memoized
            ELSE /\ ~session'.init_sysdir
                 /\ call'.error = repo.sysdir_find

\* a query without a session: the session is untouched and the query
\* looks the file up itself, in its setup and again for the push
C17_NoSession ==
    /\ session' = session
    /\ repo.fault # "cache_init" => SysLookups(call'.log) >= 1
    /\ call'.coll.error = 0 =>
           SysLookups(call'.log)
               = IF Bit(call'.flags, GIT_ATTR_CHECK_NO_SYSTEM) THEN 1 ELSE 2

\* C17: over the queries of one session the system-file lookup is made by
\* the first query that reaches it and, once it has answered found or
\* GIT_ENOTFOUND, never again: the answer is kept in the session and used
\* by every later query; a lookup that fails otherwise is not kept, its
\* error is returned, and the next query looks up again.  A query without
\* a session makes its own lookups.
C17_SysdirMemoized ==
    [][(call'.op # "none" /\ call'.coll.called) =>
          IF ~call'.as THEN C17_NoSession
          ELSE IF session.init_sysdir THEN C17_Memoized
          ELSE C17_FirstLookup]_vars

\* a later query of a session that pushes the system file from the
\* memoized answer without a lookup
C17_Witness ==
    /\ call.as /\ call.coll.called /\ call.coll.error = 0
    /\ SysLookups(call.log) = 0
    /\ PushedIn(call.log, SystemSource)
    /\ session.init_sysdir /\ session.sysdir = GIT_ATTR_FILE_SYSTEM

\* cache initialisation and every lookup and preload of a setup with the
\* given flags succeed in the repository (GIT_ENOTFOUND is no failure)
Loads(source) == repo.load[source] # "err"
SetupSucceeds(flags) ==
    /\ repo.fault # "cache_init"
    /\ repo.sysdir_find \in {0, GIT_ENOTFOUND}
    /\ repo.sysdir_find = 0 => Loads(SystemSource)
    /\ repo.cfg_attr_file # NoDir => Loads(CfgSource)
    /\ repo.info_item \in {0, GIT_ENOTFOUND}
    /\ repo.info_item = 0 => Loads(InfoSource)
    /\ repo.workdir # NoDir => Loads(DirSource(GIT_ATTR_FILE_SOURCE_FILE, 0))
    /\ repo.index_ok /\ Loads(DirSource(GIT_ATTR_FILE_SOURCE_INDEX, 0))
    /\ Bit(flags, GIT_ATTR_CHECK_INCLUDE_HEAD)
           => Loads(DirSource(GIT_ATTR_FILE_SOURCE_COMMIT, 0))
\* everything such a setup preloads, in order
SetupSources(flags) ==
    MacroSources
    \o << RootBlob(GIT_ATTR_FILE_SOURCE_INDEX) >>
    \o (IF Bit(flags, GIT_ATTR_CHECK_INCLUDE_HEAD)
        THEN << RootBlob(GIT_ATTR_FILE_SOURCE_COMMIT) >> ELSE << >>)

\* C18: the setup-done flag of a session is set exactly by a query of the
\* session whose setup succeeds in full (cache initialisation and every
\* preload, GIT_ENOTFOUND for the system or info file counting as success)
\* and then every source of the setup has been preloaded; a query whose
\* setup fails leaves it unset; once set it stays set and no query of the
\* session preloads anything, whatever its flags; a query without a
\* session never changes it.
C18_SetupDoneFlag ==
    [][/\ session.init_setup => session'.init_setup
       /\ (call'.op # "none" /\ call'.coll.called) =>
             IF ~call'.as THEN session'.init_setup = session.init_setup
             ELSE IF session.init_setup THEN Preloads(call'.log) = << >>
             ELSE /\ session'.init_setup <=> SetupSucceeds(call'.flags)
                  /\ session'.init_setup
                         => Preloads(call'.log) = SetupSources(call'.flags)]_vars

\* a query with INCLUDE_HEAD in a session set up by a query without it:
\* the HEAD blob is pushed and was never preloaded
C18_Witness ==
    /\ call.as /\ call.coll.called /\ call.coll.error = 0
    /\ session.init_setup
    /\ Bit(call.flags, GIT_ATTR_CHECK_INCLUDE_HEAD)
    /\ Preloads(call.log) = << >>
    /\ preloaded # << >>
    /\ \A i \in 1..Len(preloaded) :
           preloaded[i].type # GIT_ATTR_FILE_SOURCE_COMMIT
    /\ PushedIn(call.log, DirSource(GIT_ATTR_FILE_SOURCE_COMMIT, 0))

\* C19 as stated: when the index of the repository cannot be obtained and
\* nothing else fails, collection succeeds without requesting any index
\* source, and get and get_many return success.
C19_NoIndexIsNoError ==
    (call.coll.called /\ ~repo.index_ok) =>
        /\ call.coll.error = 0
        /\ call.op \in {"get", "get_many"} => call.error = 0
        /\ \A i \in Requests(call.log) :
               call.log[i].source.type # GIT_ATTR_FILE_SOURCE_INDEX

\* the entries of the array that were written
Written == {i \in 1..Len(call.src) : call.src[i] # "uninitialised"}

\* C20: for every flags value, with or without a work-tree and an index,
\* attr_decide_sources returns a count between 0 and 3, within the capacity
\* of the caller's array; it writes exactly the first count entries, no
\* source kind twice; the file is listed only with a work-tree, the index
\* blob only with an index, the HEAD blob exactly with INCLUDE_HEAD, and
\* for the unused source order 3 neither the file nor the index blob.
C20_DecideSources ==
    call.op = "decide" =>
        /\ call.n_src \in 0..3
        /\ call.n_src <= GIT_ATTR_FILE_NUM_SOURCES
        /\ Written = 1..call.n_src
        /\ \A i, j \in Written : i # j => call.src[i] # call.src[j]
        /\ \A i \in Written : call.src[i] \in SourceTypes
        /\ (\E i \in Written : call.src[i] = GIT_ATTR_FILE_SOURCE_FILE)
               => (call.has_wd /\ call.flags % 4 \in {0, 1})
        /\ (\E i \in Written : call.src[i] = GIT_ATTR_FILE_SOURCE_INDEX)
               => (call.has_index /\ call.flags % 4 # 3)
        /\ (\E i \in Written : call.src[i] = GIT_ATTR_FILE_SOURCE_COMMIT)
               <=> Bit(call.flags, GIT_ATTR_CHECK_INCLUDE_HEAD)

\* the largest count: a work-tree, an index and INCLUDE_HEAD
C20_Witness ==
    /\ call.op = "decide"
    /\ call.has_wd /\ call.has_index
    /\ call.n_src = 3 /\ call.src[4] = "uninitialised"

====
